---- MODULE Spec2Model ----
(***************************************************************************)
(* Minesweeper grid engine of the browser games: the click-based           *)
(* MinesweeperScene (mine placement on the first click, adjacency counts,  *)
(* recursive reveal, flags, win/loss), the SnakeMinesweeperScene (mines    *)
(* placed at creation, cells revealed around the snake's head), the        *)
(* MinesweeperPlatformerScene (mine tiles, lives, reveal on landing) and   *)
(* the SnakeGameScene (the snake's keys and ticks).                        *)
(***************************************************************************)
EXTENDS Integers, FiniteSets, Sequences, TLC

VARIABLES
    scene,          \* the Phaser scene that is running
    grid,           \* grid[y][x]: the cells
    gameOver, won, firstClick, flagsPlaced, startTime,
    gameEndCalls,   \* onGameEnd notifications delivered in this session
    cascade,        \* the call stack of a revealCell run step by step
    \* SnakeMinesweeperScene
    snake, direction, nextDirection, foodEaten, moveTimer, revealedCells,
    ticks,          \* moves made in this session
    placing,        \* a placeMines call one statement at a time
    \* MinesweeperPlatformerScene
    platforms,      \* the tiles in the order generateLevel pushed them
    platformGrid,   \* platformGrid[row][col]: index into platforms, 0 = null
    goal, player, isGrounded,
    currentPlatform,    \* index into platforms, 0 = null
    lives,
    \* SnakeGameScene (with snake, direction, nextDirection, moveTimer, ticks)
    food, score,
    snakeGameMoveDelay  \* the field moveDelay of the SnakeGameScene

\* the fields only the SnakeMinesweeperScene has
smVars == <<snake, direction, nextDirection, foodEaten, moveTimer,
            revealedCells, ticks>>

\* the fields only the MinesweeperPlatformerScene has
mpVars == <<platforms, platformGrid, goal, player, isGrounded,
            currentPlatform, lives>>

\* the fields only the SnakeGameScene has
sgVars == <<food, score, snakeGameMoveDelay>>

\* what no handler of the MinesweeperScene writes
msOthers == <<smVars, placing, mpVars, sgVars>>

\* what no handler of the SnakeMinesweeperScene writes
smOthers == <<firstClick, flagsPlaced, startTime, cascade, placing, mpVars,
              sgVars>>

vars == <<scene, grid, gameOver, won, firstClick, flagsPlaced, startTime,
          gameEndCalls, cascade, smVars, placing, mpVars, sgVars>>

(* ---- bounds of the model ---------------------------------------------- *)
\* MinesweeperScene.gridWidth / gridHeight / mineCount, scaled down from
\* 16 x 12 with 30 mines (4 x 3 is the smallest board on which every first
\* click leaves room for the mines outside its safe zone).
gridWidth == 4
gridHeight == 3
mineCount == 1
\* most flags the player keeps on the board at one time
MaxFlags == 1
\* Date.now() returns a value in 1..MaxNow
MaxNow == 1

(* ---- program constants ------------------------------------------------ *)
tileSize == 40
canvasWidth == 1024
canvasHeight == 768

Cols == 0 .. (gridWidth - 1)
Rows == 0 .. (gridHeight - 1)
Timestamps == 1 .. MaxNow
Buttons == SUBSET {"left", "right"}

abs(n) == IF n < 0 THEN -n ELSE n

\* the value of a one-element set (binds an argument to its value once)
only(S) == CHOOSE v \in S : TRUE

\* the session fields the private methods read and write
session == [grid |-> grid, gameOver |-> gameOver, won |-> won,
            flagsPlaced |-> flagsPlaced, gameEndCalls |-> gameEndCalls]

(* ---- MinesweeperScene.initGrid ---------------------------------------- *)
initGrid ==
    [y \in Rows |-> [x \in Cols |->
        [isMine |-> FALSE, isRevealed |-> FALSE, isFlagged |-> FALSE,
         adjacentMines |-> 0]]]

(* ---- MinesweeperScene.countAdjacentMines ------------------------------ *)
countAdjacentMines(g, x, y) ==
    Cardinality({d \in (-1 .. 1) \X (-1 .. 1) :
        LET nx == x + d[1]
            ny == y + d[2]
        IN /\ nx >= 0 /\ nx < gridWidth /\ ny >= 0 /\ ny < gridHeight
           /\ g[ny][nx].isMine})

(* ---- MinesweeperScene.placeMines -------------------------------------- *)
\* mutant of isSafe: the safe point's coordinates swapped
isSafeSwapped(x, y, safeX, safeY) == abs(x - safeY) <= 1 /\ abs(y - safeX) <= 1

\* isSafe of the sampling loop
isSafe(x, y, safeX, safeY) == abs(x - safeX) <= 1 /\ abs(y - safeY) <= 1

\* The sampling loop: every grid the while loop can end with. A sample that
\* hits a mine or the safe zone changes nothing and the loop draws again, so
\* the outcomes are reached through the samples that place a mine; with no
\* such sample left and minesPlaced < mineCount the loop never ends and the
\* set is empty.
RECURSIVE placeLoop(_, _, _, _)
placeLoop(g, minesPlaced, safeX, safeY) ==
    IF ~(minesPlaced < mineCount) THEN {g}
    ELSE UNION { placeLoop([g EXCEPT ![c[2]][c[1]].isMine = TRUE],
                           minesPlaced + 1, safeX, safeY) :
                 c \in {c \in Cols \X Rows :
                           /\ ~g[c[2]][c[1]].isMine
                           /\ ~isSafe(c[1], c[2], safeX, safeY)} }

\* the adjacency pass that ends placeMines
calcAdjacent(g) ==
    [y \in Rows |-> [x \in Cols |->
        IF ~g[y][x].isMine
        THEN [g[y][x] EXCEPT !.adjacentMines = countAdjacentMines(g, x, y)]
        ELSE g[y][x]]]

placeMines(g, safeX, safeY) ==
    { calcAdjacent(m) : m \in placeLoop(g, 0, safeX, safeY) }

(* ---- MinesweeperScene.toggleFlag -------------------------------------- *)
\* mutant of toggleFlag: the isRevealed test left out
toggleFlagUnguarded(st, x, y) ==
    LET cell == st.grid[y][x] IN
    [st EXCEPT !.grid[y][x].isFlagged = ~cell.isFlagged,
               !.flagsPlaced = @ + (IF ~cell.isFlagged THEN 1 ELSE -1)]

\* mutant of toggleFlag: the counter goes up on every toggle
toggleFlagCountsUp(st, x, y) ==
    LET cell == st.grid[y][x] IN
    IF ~cell.isRevealed
    THEN [st EXCEPT !.grid[y][x].isFlagged = ~cell.isFlagged,
                    !.flagsPlaced = @ + 1]
    ELSE st

\* mutant of toggleFlag: the counter is left alone
toggleFlagNoCount(st, x, y) ==
    LET cell == st.grid[y][x] IN
    IF ~cell.isRevealed
    THEN [st EXCEPT !.grid[y][x].isFlagged = ~cell.isFlagged]
    ELSE st

\* mutant of toggleFlag: a flag once set stays
toggleFlagSticky(st, x, y) ==
    LET cell == st.grid[y][x] IN
    IF ~cell.isRevealed
    THEN [st EXCEPT !.grid[y][x].isFlagged = TRUE,
                    !.flagsPlaced = @ + (IF ~cell.isFlagged THEN 1 ELSE 0)]
    ELSE st

toggleFlag(st, x, y) ==
    LET cell == st.grid[y][x] IN
    IF ~cell.isRevealed
    THEN [st EXCEPT !.grid[y][x].isFlagged = ~cell.isFlagged,
                    !.flagsPlaced = @ + (IF ~cell.isFlagged THEN 1 ELSE -1)]
    ELSE st

(* ---- MinesweeperScene.endGame ----------------------------------------- *)
endGame(st0, w) ==
    only({ [st EXCEPT !.gameOver = TRUE,
                      !.won = w,
                      !.grid = [y \in Rows |-> [x \in Cols |->
                          IF st.grid[y][x].isMine
                          THEN [st.grid[y][x] EXCEPT !.isRevealed = TRUE]
                          ELSE st.grid[y][x]]],
                      !.gameEndCalls = @ + 1]
           : st \in {st0} })

(* ---- MinesweeperScene.checkWin ---------------------------------------- *)
\* mutant of unrevealedSafe: the isMine test left out
unrevealedSafeCountsMines(g) ==
    Cardinality({c \in Cols \X Rows : ~g[c[2]][c[1]].isRevealed})

unrevealedSafe(g) ==
    Cardinality({c \in Cols \X Rows :
        ~g[c[2]][c[1]].isRevealed /\ ~g[c[2]][c[1]].isMine})

checkWin(st0) ==
    only({ IF unrevealedSafe(st.grid) = 0 THEN endGame(st, TRUE) ELSE st
           : st \in {st0} })

(* ---- MinesweeperScene.revealCell -------------------------------------- *)
\* revealNeighbours is the dy/dx double loop of revealCell from its k-th
\* iteration on (k = 3 * (dy + 1) + (dx + 1)). An iteration whose neighbour
\* is out of bounds makes no call, and a call on a revealed or flagged cell
\* returns at once: the loop goes on with the first iteration j >= k whose
\* call gets past that return.
\* mutant of returnsAtOnce: the isFlagged test left out
returnsAtOnceRevealedOnly(cell) == cell.isRevealed

\* mutant of returnsAtOnce: the isRevealed test left out
returnsAtOnceFlaggedOnly(cell) == cell.isFlagged

\* the early return of revealCell
returnsAtOnce(cell) == cell.isRevealed \/ cell.isFlagged

\* mutant of neighbourX: dx runs over 0 .. 2
neighbourXFromZero(x, k) == x + (k % 3)

neighbourX(x, k) == x + (k % 3) - 1
neighbourY(y, k) == y + (k \div 3) - 1

RECURSIVE revealCell(_, _, _), revealNeighbours(_, _, _, _)
\* mutant of revealCell: the isMine branch left out
revealCellNoMineBranch(st0, x, y) ==
    only({ LET cell == st.grid[y][x] IN
           IF returnsAtOnce(cell) THEN st
           ELSE LET s1 == [st EXCEPT !.grid[y][x].isRevealed = TRUE] IN
                checkWin(IF cell.adjacentMines = 0
                         THEN revealNeighbours(s1, x, y, 0)
                         ELSE s1)
           : st \in {st0} })

revealCell(st0, x, y) ==
    only({ LET cell == st.grid[y][x] IN
           IF returnsAtOnce(cell) THEN st
           ELSE LET s1 == [st EXCEPT !.grid[y][x].isRevealed = TRUE] IN
                IF cell.isMine THEN endGame(s1, FALSE)
                ELSE checkWin(IF cell.adjacentMines = 0
                              THEN revealNeighbours(s1, x, y, 0)
                              ELSE s1)
           : st \in {st0} })

revealNeighbours(st0, x, y, k) ==
    only({ LET calls == {j \in k .. 8 :
                   LET nx == neighbourX(x, j)
                       ny == neighbourY(y, j)
                   IN /\ nx >= 0 /\ nx < gridWidth /\ ny >= 0 /\ ny < gridHeight
                      /\ ~returnsAtOnce(st.grid[ny][nx])}
           IN IF calls = {} THEN st
              ELSE LET j == CHOOSE i \in calls : \A i2 \in calls : i <= i2
                   IN revealNeighbours(
                          revealCell(st, neighbourX(x, j), neighbourY(y, j)),
                          x, y, j + 1)
           : st \in {st0} })

(* ---- MinesweeperScene.create ------------------------------------------ *)
Cells == Cols \X Rows

\* no revealCell call is being stepped through
NoCascade == [stack |-> << >>, writes |-> [c \in Cells |-> 0]]

\* the SnakeMinesweeperScene is not running
smIdle ==
    /\ snake = << >>
    /\ direction = [x |-> 0, y |-> 0]
    /\ nextDirection = [x |-> 0, y |-> 0]
    /\ foodEaten = 0
    /\ moveTimer = 0
    /\ revealedCells = {}
    /\ ticks = 0

\* no placeMines call is being stepped through
NoPlacing == [pc |-> "idle", mineCount |-> 0, minesPlaced |-> 0,
              safeX |-> 0, safeY |-> 0]

\* the MinesweeperPlatformerScene is not running
mpIdle ==
    /\ platforms = << >>
    /\ platformGrid = << >>
    /\ goal = [x |-> 0, y |-> 0]
    /\ player = [x |-> 0, y |-> 0, vy |-> 0]
    /\ isGrounded = FALSE
    /\ currentPlatform = 0
    /\ lives = 0

\* the SnakeGameScene is not running
sgIdle ==
    /\ food = [x |-> 0, y |-> 0]
    /\ score = 0
    /\ snakeGameMoveDelay = 0

msOthersIdle == smIdle /\ placing = NoPlacing /\ mpIdle /\ sgIdle

create ==
    /\ scene = "Minesweeper"
    /\ grid = initGrid
    /\ gameOver = FALSE
    /\ won = FALSE
    /\ firstClick = TRUE
    /\ flagsPlaced = 0
    /\ startTime = 0
    /\ gameEndCalls = 0
    /\ cascade = NoCascade
    /\ msOthersIdle

Init == create

(* ---- the pointerdown handler registered by create --------------------- *)
offsetX == (canvasWidth - gridWidth * tileSize) \div 2
offsetY == (canvasHeight - gridHeight * tileSize) \div 2

\* pointer positions: the middle of every tile, and of tiles just outside
\* the grid on each side and past two corners
tileMiddle(i, j) ==
    <<offsetX + i * tileSize + tileSize \div 2,
      offsetY + j * tileSize + tileSize \div 2>>
Pointers ==
    { tileMiddle(c[1], c[2]) : c \in Cells }
    \cup { tileMiddle(-1, 0), tileMiddle(gridWidth, 0),
           tileMiddle(0, -1), tileMiddle(0, gridHeight),
           tileMiddle(-1, -1), tileMiddle(gridWidth, gridHeight) }

\* mutant of toGridX: the column clamped to the grid
toGridXClamped(px) ==
    IF (px - offsetX) \div tileSize < 0 THEN 0
    ELSE IF (px - offsetX) \div tileSize >= gridWidth THEN gridWidth - 1
    ELSE (px - offsetX) \div tileSize

toGridX(px) == (px - offsetX) \div tileSize
toGridY(py) == (py - offsetY) \div tileSize

inGrid(gridX, gridY) ==
    gridX >= 0 /\ gridX < gridWidth /\ gridY >= 0 /\ gridY < gridHeight

\* the assignment of a session record back to the fields
store(st) ==
    /\ grid' = st.grid
    /\ gameOver' = st.gameOver
    /\ won' = st.won
    /\ flagsPlaced' = st.flagsPlaced
    /\ gameEndCalls' = st.gameEndCalls

\* mutant of restart: initGrid left out
restartKeepsGrid ==
    /\ grid' = grid
    /\ gameOver' = FALSE
    /\ won' = FALSE
    /\ firstClick' = TRUE
    /\ flagsPlaced' = 0
    /\ startTime' = 0
    /\ gameEndCalls' = 0
    /\ UNCHANGED <<scene, cascade>>

restart ==
    /\ grid' = initGrid
    /\ gameOver' = FALSE
    /\ won' = FALSE
    /\ firstClick' = TRUE
    /\ flagsPlaced' = 0
    /\ startTime' = 0
    /\ gameEndCalls' = 0
    /\ UNCHANGED <<scene, cascade>>

\* mutant of pointerdown: the gameOver test left out
pointerdownWhenOver(px, py, buttons) ==
    /\ scene = "Minesweeper"
    /\ UNCHANGED msOthers
    /\ LET gridX == toGridX(px)
           gridY == toGridY(py)
       IN
       IF ~inGrid(gridX, gridY) THEN UNCHANGED vars
       ELSE IF "right" \in buttons
            THEN /\ store(toggleFlag(session, gridX, gridY))
                 /\ UNCHANGED <<scene, firstClick, startTime, cascade>>
       ELSE IF "left" \in buttons
            THEN IF firstClick
                 THEN \E g \in placeMines(grid, gridX, gridY), now \in Timestamps :
                         /\ firstClick' = FALSE
                         /\ startTime' = now
                         /\ store(revealCell([session EXCEPT !.grid = g],
                                             gridX, gridY))
                         /\ UNCHANGED <<scene, cascade>>
                 ELSE /\ store(revealCell(session, gridX, gridY))
                      /\ UNCHANGED <<scene, firstClick, startTime, cascade>>
       ELSE UNCHANGED vars

pointerdown(px, py, buttons) ==
    /\ scene = "Minesweeper"
    /\ UNCHANGED msOthers
    /\ LET gridX == toGridX(px)
           gridY == toGridY(py)
       IN
       IF gameOver
       THEN IF "left" \in buttons THEN restart ELSE UNCHANGED vars
       ELSE IF ~inGrid(gridX, gridY) THEN UNCHANGED vars
       ELSE IF "right" \in buttons
            THEN /\ store(toggleFlag(session, gridX, gridY))
                 /\ UNCHANGED <<scene, firstClick, startTime, cascade>>
       ELSE IF "left" \in buttons
            THEN IF firstClick
                 THEN \E g \in placeMines(grid, gridX, gridY), now \in Timestamps :
                         /\ firstClick' = FALSE
                         /\ startTime' = now
                         /\ store(revealCell([session EXCEPT !.grid = g],
                                             gridX, gridY))
                         /\ UNCHANGED <<scene, cascade>>
                 ELSE /\ store(revealCell(session, gridX, gridY))
                      /\ UNCHANGED <<scene, firstClick, startTime, cascade>>
       ELSE UNCHANGED vars

\* the player keeps at most MaxFlags flags on the board
withinFlagBound(px, py, buttons) ==
    LET gridX == toGridX(px)
        gridY == toGridY(py)
    IN (/\ scene = "Minesweeper"
        /\ ~gameOver
        /\ inGrid(gridX, gridY)
        /\ "right" \in buttons
        /\ ~grid[gridY][gridX].isRevealed
        /\ ~grid[gridY][gridX].isFlagged) => flagsPlaced < MaxFlags

PointerDown ==
    \E p \in Pointers, buttons \in Buttons :
        /\ withinFlagBound(p[1], p[2], buttons)
        /\ pointerdown(p[1], p[2], buttons)

Next == PointerDown

Spec == Init /\ [][Next]_vars

(* ---- MinesweeperScene.revealCell, one statement at a time -------------- *)
\* A frame of the call stack is a revealCell(x, y) call and where it stands:
\* "enter" (before the early return), "loop" (iteration k of the dy/dx
\* loop) or "checkWin". cascade.writes[c] counts the executions of
\* cell.isRevealed = true on c; cascade.call is the call that started it.
frame(x, y, at, k) == [x |-> x, y |-> y, at |-> at, k |-> k]

\* boards the first click can produce, before any reveal (a first click on a
\* flagged cell places the mines and reveals nothing), with the player's flags
flagSets == {F \in SUBSET Cells : Cardinality(F) <= MaxFlags}
placedBoards == UNION { placeMines(initGrid, c[1], c[2]) : c \in Cells }
withFlags(g, F) ==
    [y \in Rows |-> [x \in Cols |->
        [g[y][x] EXCEPT !.isFlagged = (<<x, y>> \in F)]]]

InitCascade ==
    /\ scene = "Minesweeper"
    /\ gameOver = FALSE
    /\ won = FALSE
    /\ firstClick = FALSE
    /\ startTime \in Timestamps
    /\ gameEndCalls = 0
    /\ msOthersIdle
    /\ \E g \in placedBoards, F \in flagSets, c \in Cells :
          /\ grid = withFlags(g, F)
          /\ flagsPlaced = Cardinality(F)
          /\ cascade =
                [stack |-> <<frame(c[1], c[2], "enter", 0)>>,
                 writes |-> [d \in Cells |-> 0],
                 call |-> [st |-> [grid |-> withFlags(g, F), gameOver |-> FALSE,
                                   won |-> FALSE,
                                   flagsPlaced |-> Cardinality(F),
                                   gameEndCalls |-> 0],
                           x |-> c[1], y |-> c[2]]]

top == Head(cascade.stack)
return == Tail(cascade.stack)

\* lines 538-549: the early return, the write, the mine branch, the test
\* of adjacentMines
CascadeEnter ==
    /\ cascade.stack # << >>
    /\ top.at = "enter"
    /\ LET cell == grid[top.y][top.x] IN
       IF returnsAtOnce(cell)
       THEN /\ cascade' = [cascade EXCEPT !.stack = return]
            /\ UNCHANGED <<grid, gameOver, won, flagsPlaced, gameEndCalls>>
       ELSE LET s1 == [session EXCEPT !.grid[top.y][top.x].isRevealed = TRUE]
                counted == [cascade EXCEPT !.writes[<<top.x, top.y>>] = @ + 1]
            IN IF cell.isMine
               THEN /\ store(endGame(s1, FALSE))
                    /\ cascade' = [counted EXCEPT !.stack = return]
               ELSE /\ store(s1)
                    /\ cascade' = [counted EXCEPT !.stack =
                          <<frame(top.x, top.y,
                                  IF cell.adjacentMines = 0 THEN "loop"
                                                            ELSE "checkWin",
                                  0)>> \o return]
    /\ UNCHANGED <<scene, firstClick, startTime, msOthers>>

\* lines 550-558: one iteration of the loop, with its call when the
\* neighbour is in bounds
CascadeLoop ==
    /\ cascade.stack # << >>
    /\ top.at = "loop"
    /\ LET nx == neighbourX(top.x, top.k)
           ny == neighbourY(top.y, top.k)
           next == IF top.k < 8 THEN frame(top.x, top.y, "loop", top.k + 1)
                                ELSE frame(top.x, top.y, "checkWin", 0)
       IN cascade' = [cascade EXCEPT !.stack =
             IF nx >= 0 /\ nx < gridWidth /\ ny >= 0 /\ ny < gridHeight
             THEN <<frame(nx, ny, "enter", 0), next>> \o return
             ELSE <<next>> \o return]
    /\ UNCHANGED <<scene, grid, gameOver, won, firstClick, flagsPlaced,
                   startTime, gameEndCalls, msOthers>>

\* line 561: checkWin, then the call returns
CascadeCheckWin ==
    /\ cascade.stack # << >>
    /\ top.at = "checkWin"
    /\ store(checkWin(session))
    /\ cascade' = [cascade EXCEPT !.stack = return]
    /\ UNCHANGED <<scene, firstClick, startTime, msOthers>>

NextCascade == CascadeEnter \/ CascadeLoop \/ CascadeCheckWin

\* the handler runs to completion: a call that can take a step takes it
SpecCascade == InitCascade /\ [][NextCascade]_vars /\ WF_vars(NextCascade)

\* the statement-level run ends in the session revealCell computes
CascadeAgrees ==
    cascade.stack = << >> =>
        session = revealCell(cascade.call.st, cascade.call.x, cascade.call.y)

(* ======================================================================= *)
(* SnakeMinesweeperScene (src/pages/snake-minesweeper.tsx)                  *)
(* ======================================================================= *)
(* ---- bounds of the model ---------------------------------------------- *)
\* SnakeMinesweeperScene.gridSize / mineCount / foodCount, scaled down from
\* 15 x 15 with 25 mines and 10 food (6 x 6 is the smallest board with cells
\* outside the 5 x 5 safe zone of the spawn point).
gridSize == 6
snakeMineCount == 1
foodCount == 1
\* moves of the snake in one session
MaxTicks == 3

(* ---- program constants ------------------------------------------------ *)
moveDelay == 200

Idx == 0 .. (gridSize - 1)
SnakeCells == Idx \X Idx
\* this.game.loop.delta: a frame that falls short of moveDelay, one that
\* reaches it
Deltas == {moveDelay \div 2, moveDelay}
Codes == {"ArrowUp", "KeyW", "ArrowDown", "KeyS", "ArrowLeft", "KeyA",
          "ArrowRight", "KeyD", "Space", "Escape"}

\* the session fields the private methods read and write
snakeSession == [grid |-> grid, snake |-> snake, direction |-> direction,
                 foodEaten |-> foodEaten, gameOver |-> gameOver, won |-> won,
                 revealedCells |-> revealedCells,
                 gameEndCalls |-> gameEndCalls]

(* ---- SnakeMinesweeperScene.initGrid ----------------------------------- *)
snakeInitGrid ==
    [y \in Idx |-> [x \in Idx |->
        [isMine |-> FALSE, isRevealed |-> FALSE, adjacentMines |-> 0,
         hasFood |-> FALSE]]]

(* ---- SnakeMinesweeperScene.countAdjacentMines ------------------------- *)
\* mutant of snakeCountAdjacentMines: column 0 left out of the bounds test
snakeCountAdjacentMinesFromOne(g, x, y) ==
    Cardinality({d \in (-1 .. 1) \X (-1 .. 1) :
        LET nx == x + d[1]
            ny == y + d[2]
        IN /\ nx > 0 /\ nx < gridSize /\ ny >= 0 /\ ny < gridSize
           /\ g[ny][nx].isMine})

snakeCountAdjacentMines(g, x, y) ==
    Cardinality({d \in (-1 .. 1) \X (-1 .. 1) :
        LET nx == x + d[1]
            ny == y + d[2]
        IN /\ nx >= 0 /\ nx < gridSize /\ ny >= 0 /\ ny < gridSize
           /\ g[ny][nx].isMine})

(* ---- SnakeMinesweeperScene.placeMines --------------------------------- *)
\* mutant of snakeIsSafe: the radius of the click game
snakeIsSafeRadiusOne(x, y, safeX, safeY) ==
    abs(x - safeX) <= 1 /\ abs(y - safeY) <= 1

\* isSafe of the sampling loop
snakeIsSafe(x, y, safeX, safeY) == abs(x - safeX) <= 2 /\ abs(y - safeY) <= 2

\* the sampling loop: every grid the while loop can end with (none when no
\* sample can place a mine and placed < mineCount: the loop never ends)
RECURSIVE snakePlaceLoop(_, _, _, _)
snakePlaceLoop(g, placed, safeX, safeY) ==
    IF ~(placed < snakeMineCount) THEN {g}
    ELSE UNION { snakePlaceLoop([g EXCEPT ![c[2]][c[1]].isMine = TRUE],
                                placed + 1, safeX, safeY) :
                 c \in {c \in SnakeCells :
                           /\ ~g[c[2]][c[1]].isMine
                           /\ ~snakeIsSafe(c[1], c[2], safeX, safeY)} }

\* mutant of snakeCalcAdjacent: the mine cells are counted too
snakeCalcAdjacentAllCells(g) ==
    [y \in Idx |-> [x \in Idx |->
        [g[y][x] EXCEPT !.adjacentMines = snakeCountAdjacentMines(g, x, y)]]]

\* the adjacency pass that ends placeMines
snakeCalcAdjacent(g) ==
    [y \in Idx |-> [x \in Idx |->
        IF ~g[y][x].isMine
        THEN [g[y][x] EXCEPT !.adjacentMines = snakeCountAdjacentMines(g, x, y)]
        ELSE g[y][x]]]

snakePlaceMines(g, safeX, safeY) ==
    { snakeCalcAdjacent(m) : m \in snakePlaceLoop(g, 0, safeX, safeY) }

(* ---- SnakeMinesweeperScene.placeFood ---------------------------------- *)
onSnake(segs, x, y) == \E i \in DOMAIN segs : segs[i].x = x /\ segs[i].y = y

\* the sampling loop of placeFood: every grid it can end with
RECURSIVE placeFoodLoop(_, _, _)
placeFoodLoop(g, placed, segs) ==
    IF ~(placed < foodCount) THEN {g}
    ELSE UNION { placeFoodLoop([g EXCEPT ![c[2]][c[1]].hasFood = TRUE],
                               placed + 1, segs) :
                 c \in {c \in SnakeCells :
                           /\ ~g[c[2]][c[1]].isMine
                           /\ ~g[c[2]][c[1]].hasFood
                           /\ ~onSnake(segs, c[1], c[2])} }

placeFood(g, segs) == placeFoodLoop(g, 0, segs)

(* ---- SnakeMinesweeperScene.revealAroundSnake -------------------------- *)
\* the template string `${nx},${ny}`
cellKey(nx, ny) == ToString(nx) \o "," \o ToString(ny)

\* mutant of snakeKernel: the bounds test left out
snakeKernelUnchecked(head) ==
    { <<head.x + d[1], head.y + d[2]>> : d \in (-1 .. 1) \X (-1 .. 1) }

\* mutant of snakeKernel: two cells each way
snakeKernelWide(head) ==
    { c \in { <<head.x + d[1], head.y + d[2]>> : d \in (-2 .. 2) \X (-2 .. 2) } :
        c[1] >= 0 /\ c[1] < gridSize /\ c[2] >= 0 /\ c[2] < gridSize }

\* the cells grid[ny][nx] the two loops index: the offsets that pass the
\* bounds test
snakeKernel(head) ==
    { c \in { <<head.x + d[1], head.y + d[2]>> : d \in (-1 .. 1) \X (-1 .. 1) } :
        c[1] >= 0 /\ c[1] < gridSize /\ c[2] >= 0 /\ c[2] < gridSize }

\* mutant of revealAroundSnake: the cells out of the kernel are hidden again
revealAroundSnakeFog(st) ==
    only({ [st EXCEPT !.grid = [y \in Idx |-> [x \in Idx |->
                          [st.grid[y][x] EXCEPT
                              !.isRevealed = <<x, y>> \in around]]],
                      !.revealedCells = {cellKey(c[1], c[2]) : c \in around}] :
           around \in { snakeKernel(st.snake[1]) } })

revealAroundSnake(st) ==
    only({ [st EXCEPT !.grid = [y \in Idx |-> [x \in Idx |->
                          IF <<x, y>> \in around
                          THEN [st.grid[y][x] EXCEPT !.isRevealed = TRUE]
                          ELSE st.grid[y][x]]],
                      !.revealedCells = @ \cup {cellKey(c[1], c[2]) :
                                                  c \in around}] :
           around \in { snakeKernel(st.snake[1]) } })

(* ---- SnakeMinesweeperScene.endGame ------------------------------------ *)
snakeEndGame(st, w) ==
    [st EXCEPT !.gameOver = TRUE,
               !.won = w,
               !.grid = IF ~w
                        THEN [y \in Idx |-> [x \in Idx |->
                                 IF st.grid[y][x].isMine
                                 THEN [st.grid[y][x] EXCEPT !.isRevealed = TRUE]
                                 ELSE st.grid[y][x]]]
                        ELSE st.grid,
               !.gameEndCalls = @ + 1]

(* ---- SnakeMinesweeperScene.moveSnake ---------------------------------- *)
\* mutant of moveSnake: the food stays on the cell it was eaten from
moveSnakeKeepsFood(st) ==
    LET head == st.snake[1]
        newHead == [x |-> head.x + st.direction.x, y |-> head.y + st.direction.y]
    IN IF \/ newHead.x < 0 \/ newHead.x >= gridSize
          \/ newHead.y < 0 \/ newHead.y >= gridSize
       THEN snakeEndGame(st, FALSE)
       ELSE IF onSnake(st.snake, newHead.x, newHead.y)
       THEN snakeEndGame(st, FALSE)
       ELSE IF st.grid[newHead.y][newHead.x].isMine
       THEN snakeEndGame(st, FALSE)
       ELSE LET s1 == revealAroundSnake([st EXCEPT !.snake = <<newHead>> \o @])
            IN IF s1.grid[newHead.y][newHead.x].hasFood
               THEN LET s2 == [s1 EXCEPT !.foodEaten = @ + 1]
                    IN IF s2.foodEaten >= foodCount
                       THEN snakeEndGame(s2, TRUE)
                       ELSE s2
               ELSE [s1 EXCEPT !.snake = SubSeq(@, 1, Len(@) - 1)]

\* mutant of moveSnake: the mine test left out
moveSnakeOverMines(st) ==
    LET head == st.snake[1]
        newHead == [x |-> head.x + st.direction.x, y |-> head.y + st.direction.y]
    IN IF \/ newHead.x < 0 \/ newHead.x >= gridSize
          \/ newHead.y < 0 \/ newHead.y >= gridSize
       THEN snakeEndGame(st, FALSE)
       ELSE IF onSnake(st.snake, newHead.x, newHead.y)
       THEN snakeEndGame(st, FALSE)
       ELSE LET s1 == revealAroundSnake([st EXCEPT !.snake = <<newHead>> \o @])
            IN IF s1.grid[newHead.y][newHead.x].hasFood
               THEN LET s2 == [s1 EXCEPT
                                 !.grid[newHead.y][newHead.x].hasFood = FALSE,
                                 !.foodEaten = @ + 1]
                    IN IF s2.foodEaten >= foodCount
                       THEN snakeEndGame(s2, TRUE)
                       ELSE s2
               ELSE [s1 EXCEPT !.snake = SubSeq(@, 1, Len(@) - 1)]

moveSnake(st) ==
    LET head == st.snake[1]
        newHead == [x |-> head.x + st.direction.x, y |-> head.y + st.direction.y]
    IN IF \/ newHead.x < 0 \/ newHead.x >= gridSize
          \/ newHead.y < 0 \/ newHead.y >= gridSize
       THEN snakeEndGame(st, FALSE)
       ELSE IF onSnake(st.snake, newHead.x, newHead.y)
       THEN snakeEndGame(st, FALSE)
       ELSE IF st.grid[newHead.y][newHead.x].isMine
       THEN snakeEndGame(st, FALSE)
       ELSE LET s1 == revealAroundSnake([st EXCEPT !.snake = <<newHead>> \o @])
            IN IF s1.grid[newHead.y][newHead.x].hasFood
               THEN LET s2 == [s1 EXCEPT
                                 !.grid[newHead.y][newHead.x].hasFood = FALSE,
                                 !.foodEaten = @ + 1]
                    IN IF s2.foodEaten >= foodCount
                       THEN snakeEndGame(s2, TRUE)
                       ELSE s2
               ELSE [s1 EXCEPT !.snake = SubSeq(@, 1, Len(@) - 1)]

(* ---- SnakeMinesweeperScene.create ------------------------------------- *)
centerX == gridSize \div 2
centerY == gridSize \div 2
spawn == << [x |-> centerX, y |-> centerY],
            [x |-> centerX - 1, y |-> centerY],
            [x |-> centerX - 2, y |-> centerY] >>

\* the sessions create can set up: mines, then food, then the reveal around
\* the head
created ==
    { revealAroundSnake([grid |-> f, snake |-> spawn,
                         direction |-> [x |-> 1, y |-> 0],
                         foodEaten |-> 0, gameOver |-> FALSE, won |-> FALSE,
                         revealedCells |-> {}, gameEndCalls |-> 0]) :
      f \in UNION { placeFood(m, spawn) :
                    m \in snakePlaceMines(snakeInitGrid, centerX, centerY) } }

\* the fields only the MinesweeperScene has
msIdle ==
    /\ firstClick = FALSE
    /\ flagsPlaced = 0
    /\ startTime = 0
    /\ cascade = NoCascade

smOthersIdle == msIdle /\ placing = NoPlacing /\ mpIdle /\ sgIdle

snakeCreate ==
    /\ scene = "SnakeMinesweeper"
    /\ \E st \in created :
          /\ grid = st.grid
          /\ snake = st.snake
          /\ direction = st.direction
          /\ foodEaten = st.foodEaten
          /\ gameOver = st.gameOver
          /\ won = st.won
          /\ revealedCells = st.revealedCells
          /\ gameEndCalls = st.gameEndCalls
    /\ nextDirection = [x |-> 1, y |-> 0]
    /\ moveTimer = 0
    /\ ticks = 0
    /\ smOthersIdle

InitSnake == snakeCreate

\* the assignment of a session record back to the fields
snakeStore(st) ==
    /\ grid' = st.grid
    /\ snake' = st.snake
    /\ direction' = st.direction
    /\ foodEaten' = st.foodEaten
    /\ gameOver' = st.gameOver
    /\ won' = st.won
    /\ revealedCells' = st.revealedCells
    /\ gameEndCalls' = st.gameEndCalls

\* this.scene.restart(): create runs again
snakeRestart ==
    /\ \E st \in created : snakeStore(st)
    /\ nextDirection' = [x |-> 1, y |-> 0]
    /\ moveTimer' = 0
    /\ ticks' = 0

(* ---- the keydown handler registered by create ------------------------- *)
turn(allowed, dx, dy) ==
    /\ nextDirection' = IF allowed THEN [x |-> dx, y |-> dy] ELSE nextDirection
    /\ UNCHANGED <<grid, snake, direction, foodEaten, gameOver, won,
                   revealedCells, gameEndCalls, moveTimer, ticks>>

\* mutant of keydown: every turn is taken
keydownAnyTurn(code) ==
    /\ scene = "SnakeMinesweeper"
    /\ UNCHANGED <<scene, smOthers>>
    /\ IF gameOver
       THEN IF code = "Space" THEN snakeRestart ELSE UNCHANGED vars
       ELSE IF code \in {"ArrowUp", "KeyW"} THEN turn(TRUE, 0, -1)
       ELSE IF code \in {"ArrowDown", "KeyS"} THEN turn(TRUE, 0, 1)
       ELSE IF code \in {"ArrowLeft", "KeyA"} THEN turn(TRUE, -1, 0)
       ELSE IF code \in {"ArrowRight", "KeyD"} THEN turn(TRUE, 1, 0)
       ELSE UNCHANGED vars

keydown(code) ==
    /\ scene = "SnakeMinesweeper"
    /\ UNCHANGED <<scene, smOthers>>
    /\ IF gameOver
       THEN IF code = "Space" THEN snakeRestart ELSE UNCHANGED vars
       ELSE IF code \in {"ArrowUp", "KeyW"} THEN turn(direction.y # 1, 0, -1)
       ELSE IF code \in {"ArrowDown", "KeyS"} THEN turn(direction.y # -1, 0, 1)
       ELSE IF code \in {"ArrowLeft", "KeyA"} THEN turn(direction.x # 1, -1, 0)
       ELSE IF code \in {"ArrowRight", "KeyD"} THEN turn(direction.x # -1, 1, 0)
       ELSE UNCHANGED vars

KeyDown == \E code \in Codes : keydown(code)

(* ---- SnakeMinesweeperScene.update ------------------------------------- *)
\* mutant of update: the gameOver test left out
updateWhenOver(delta) ==
    /\ scene = "SnakeMinesweeper"
    /\ UNCHANGED <<scene, smOthers>>
    /\ IF moveTimer + delta >= moveDelay
       THEN /\ moveTimer' = 0
            /\ snakeStore(moveSnake([snakeSession EXCEPT
                                        !.direction = nextDirection]))
            /\ ticks' = ticks + 1
            /\ UNCHANGED nextDirection
       ELSE /\ moveTimer' = moveTimer + delta
            /\ UNCHANGED <<grid, snake, direction, nextDirection, foodEaten,
                           gameOver, won, revealedCells, gameEndCalls, ticks>>

update(delta) ==
    /\ scene = "SnakeMinesweeper"
    /\ UNCHANGED <<scene, smOthers>>
    /\ IF gameOver THEN UNCHANGED vars
       ELSE IF moveTimer + delta >= moveDelay
       THEN /\ moveTimer' = 0
            /\ snakeStore(moveSnake([snakeSession EXCEPT
                                        !.direction = nextDirection]))
            /\ ticks' = ticks + 1
            /\ UNCHANGED nextDirection
       ELSE /\ moveTimer' = moveTimer + delta
            /\ UNCHANGED <<grid, snake, direction, nextDirection, foodEaten,
                           gameOver, won, revealedCells, gameEndCalls, ticks>>

\* a session makes at most MaxTicks moves
withinTickBound(delta) ==
    (~gameOver /\ moveTimer + delta >= moveDelay) => ticks < MaxTicks

Update == \E delta \in Deltas : withinTickBound(delta) /\ update(delta)

NextSnake == KeyDown \/ Update

SpecSnake == InitSnake /\ [][NextSnake]_vars

(* ======================================================================= *)
(* SnakeGameScene (src/pages/snake.tsx)                                     *)
(* ======================================================================= *)
\* SnakeGameScene.gridSize is scaled down from 20 to the gridSize of the
\* other snake board; the literals of its spawn, 10, 9 and 8 on row 10, are
\* the middle of the board, as in spawn.
(* ---- program constants ------------------------------------------------ *)
startDelay == 150
speedUp == 2
minDelay == 50
foodScore == 10

\* this.game.loop.delta: a frame that falls short of the delay, one that
\* reaches it
snakeGameDeltas == {startDelay \div 2, startDelay}

\* the session fields the private methods read and write
snakeGameSession ==
    [snake |-> snake, food |-> food, direction |-> direction,
     score |-> score, moveDelay |-> snakeGameMoveDelay,
     gameOver |-> gameOver, gameEndCalls |-> gameEndCalls]

(* ---- SnakeGameScene.placeFood ----------------------------------------- *)
\* every cell the sampling loop can end on
snakeGamePlaceFood(segs) ==
    { [x |-> c[1], y |-> c[2]] :
        c \in { c \in SnakeCells : ~onSnake(segs, c[1], c[2]) } }

(* ---- SnakeGameScene.endGame ------------------------------------------- *)
snakeGameEndGame(st) ==
    [st EXCEPT !.gameOver = TRUE, !.gameEndCalls = @ + 1]

(* ---- SnakeGameScene.moveSnake ----------------------------------------- *)
\* every session one call can end with
snakeGameMoveSnake(st) ==
    LET head == st.snake[1]
        newHead == [x |-> head.x + st.direction.x, y |-> head.y + st.direction.y]
        grown == <<newHead>> \o st.snake
    IN IF \/ newHead.x < 0 \/ newHead.x >= gridSize
          \/ newHead.y < 0 \/ newHead.y >= gridSize
       THEN { snakeGameEndGame(st) }
       ELSE IF onSnake(st.snake, newHead.x, newHead.y)
       THEN { snakeGameEndGame(st) }
       ELSE IF newHead = st.food
       THEN { [st EXCEPT !.snake = grown,
                         !.score = @ + foodScore,
                         !.food = f,
                         !.moveDelay = IF @ - speedUp > minDelay
                                       THEN @ - speedUp ELSE minDelay] :
              f \in snakeGamePlaceFood(grown) }
       ELSE { [st EXCEPT !.snake = SubSeq(grown, 1, Len(grown) - 1)] }

(* ---- SnakeGameScene.create -------------------------------------------- *)
\* what is pinned while the SnakeGameScene runs
sgOthersIdle ==
    /\ grid = << >>
    /\ won = FALSE
    /\ foodEaten = 0
    /\ revealedCells = {}
    /\ msIdle
    /\ placing = NoPlacing
    /\ mpIdle

\* what no handler of the SnakeGameScene writes
sgOthers == <<scene, grid, won, foodEaten, revealedCells, firstClick,
              flagsPlaced, startTime, cascade, placing, mpVars>>

snakeGameCreate ==
    /\ scene = "SnakeGame"
    /\ snake = spawn
    /\ direction = [x |-> 1, y |-> 0]
    /\ nextDirection = [x |-> 1, y |-> 0]
    /\ score = 0
    /\ gameOver = FALSE
    /\ snakeGameMoveDelay = startDelay
    /\ food \in snakeGamePlaceFood(spawn)
    /\ moveTimer = 0
    /\ ticks = 0
    /\ gameEndCalls = 0
    /\ sgOthersIdle

InitSnakeGame == snakeGameCreate

\* the assignment of a session record back to the fields
snakeGameStore(st) ==
    /\ snake' = st.snake
    /\ food' = st.food
    /\ direction' = st.direction
    /\ score' = st.score
    /\ snakeGameMoveDelay' = st.moveDelay
    /\ gameOver' = st.gameOver
    /\ gameEndCalls' = st.gameEndCalls

\* this.scene.restart(): create runs again; it does not write moveTimer
snakeGameRestart ==
    /\ snake' = spawn
    /\ direction' = [x |-> 1, y |-> 0]
    /\ nextDirection' = [x |-> 1, y |-> 0]
    /\ score' = 0
    /\ gameOver' = FALSE
    /\ snakeGameMoveDelay' = startDelay
    /\ food' \in snakeGamePlaceFood(spawn)
    /\ ticks' = 0
    /\ gameEndCalls' = 0
    /\ UNCHANGED moveTimer

(* ---- the keydown handler registered by create ------------------------- *)
snakeGameTurn(allowed, dx, dy) ==
    /\ nextDirection' = IF allowed THEN [x |-> dx, y |-> dy] ELSE nextDirection
    /\ UNCHANGED <<snake, direction, gameOver, gameEndCalls, moveTimer, ticks,
                   sgVars>>

\* mutant of snakeGameKeydown: the turn is tested against nextDirection
snakeGameKeydownOnNext(code) ==
    /\ scene = "SnakeGame"
    /\ UNCHANGED sgOthers
    /\ IF gameOver
       THEN IF code = "Space" THEN snakeGameRestart ELSE UNCHANGED vars
       ELSE IF code \in {"ArrowUp", "KeyW"}
            THEN snakeGameTurn(nextDirection.y # 1, 0, -1)
       ELSE IF code \in {"ArrowDown", "KeyS"}
            THEN snakeGameTurn(nextDirection.y # -1, 0, 1)
       ELSE IF code \in {"ArrowLeft", "KeyA"}
            THEN snakeGameTurn(nextDirection.x # 1, -1, 0)
       ELSE IF code \in {"ArrowRight", "KeyD"}
            THEN snakeGameTurn(nextDirection.x # -1, 1, 0)
       ELSE UNCHANGED vars

snakeGameKeydown(code) ==
    /\ scene = "SnakeGame"
    /\ UNCHANGED sgOthers
    /\ IF gameOver
       THEN IF code = "Space" THEN snakeGameRestart ELSE UNCHANGED vars
       ELSE IF code \in {"ArrowUp", "KeyW"}
            THEN snakeGameTurn(direction.y # 1, 0, -1)
       ELSE IF code \in {"ArrowDown", "KeyS"}
            THEN snakeGameTurn(direction.y # -1, 0, 1)
       ELSE IF code \in {"ArrowLeft", "KeyA"}
            THEN snakeGameTurn(direction.x # 1, -1, 0)
       ELSE IF code \in {"ArrowRight", "KeyD"}
            THEN snakeGameTurn(direction.x # -1, 1, 0)
       ELSE UNCHANGED vars

SnakeGameKeyDown == \E code \in Codes : snakeGameKeydown(code)

(* ---- SnakeGameScene.update -------------------------------------------- *)
snakeGameUpdate(delta) ==
    /\ scene = "SnakeGame"
    /\ UNCHANGED sgOthers
    /\ IF gameOver THEN UNCHANGED vars
       ELSE IF moveTimer + delta >= snakeGameMoveDelay
       THEN /\ moveTimer' = 0
            /\ \E st \in snakeGameMoveSnake([snakeGameSession EXCEPT
                                                 !.direction = nextDirection]) :
                  snakeGameStore(st)
            /\ ticks' = ticks + 1
            /\ UNCHANGED nextDirection
       ELSE /\ moveTimer' = moveTimer + delta
            /\ UNCHANGED <<snake, direction, nextDirection, gameOver,
                           gameEndCalls, ticks, sgVars>>

\* a session makes at most MaxTicks moves
snakeGameWithinTickBound(delta) ==
    (~gameOver /\ moveTimer + delta >= snakeGameMoveDelay) => ticks < MaxTicks

SnakeGameUpdate ==
    \E delta \in snakeGameDeltas :
        snakeGameWithinTickBound(delta) /\ snakeGameUpdate(delta)

NextSnakeGame == SnakeGameKeyDown \/ SnakeGameUpdate

SpecSnakeGame == InitSnakeGame /\ [][NextSnakeGame]_vars

(* ---- the two snake games ------------------------------------------------ *)
\* the page that is open chooses the scene
InitSnakes == InitSnake \/ InitSnakeGame
NextSnakes == KeyDown \/ Update \/ SnakeGameKeyDown \/ SnakeGameUpdate
SpecSnakes == InitSnakes /\ [][NextSnakes]_vars

(* ---- the games that restart in the scene -------------------------------- *)
\* the page that is open chooses the scene
InitSessions == Init \/ InitSnake \/ InitSnakeGame
NextSessions ==
    PointerDown \/ KeyDown \/ Update \/ SnakeGameKeyDown \/ SnakeGameUpdate
SpecSessions == InitSessions /\ [][NextSessions]_vars

(* ---- the two minesweeper boards --------------------------------------- *)
\* the page that is open chooses the scene
InitBoards == Init \/ InitSnake
NextBoards == PointerDown \/ KeyDown \/ Update
SpecBoards == InitBoards /\ [][NextBoards]_vars

(* ---- placeMines of both scenes, one statement at a time ---------------- *)
\* placing.mineCount is the field this.mineCount the call reads, drawn from
\* 1 .. MaxMineCount: more than the cells outside the widest safe zone of the
\* click board.
MaxMineCount == 4
MineCounts == 1 .. MaxMineCount

placeBoard == IF scene = "Minesweeper" THEN Cells ELSE SnakeCells
\* mutant of placeIsSafe: the radius of the snake game on both boards
placeIsSafeRadiusTwo(x, y) ==
    snakeIsSafe(x, y, placing.safeX, placing.safeY)

placeIsSafe(x, y) ==
    IF scene = "Minesweeper"
    THEN isSafe(x, y, placing.safeX, placing.safeY)
    ELSE snakeIsSafe(x, y, placing.safeX, placing.safeY)

\* the scene as it stands when placeMines is called: the click game on its
\* first left click at any cell, the snake game inside create
InitPlaceMines ==
    \/ /\ scene = "Minesweeper"
       /\ grid = initGrid
       /\ gameOver = FALSE
       /\ won = FALSE
       /\ firstClick = TRUE
       /\ flagsPlaced = 0
       /\ startTime = 0
       /\ gameEndCalls = 0
       /\ cascade = NoCascade
       /\ smIdle
       /\ mpIdle
       /\ sgIdle
       /\ \E c \in Cells, n \in MineCounts :
             placing = [pc |-> "loop", mineCount |-> n, minesPlaced |-> 0,
                        safeX |-> c[1], safeY |-> c[2]]
    \/ /\ scene = "SnakeMinesweeper"
       /\ grid = snakeInitGrid
       /\ gameOver = FALSE
       /\ won = FALSE
       /\ gameEndCalls = 0
       /\ snake = spawn
       /\ direction = [x |-> 1, y |-> 0]
       /\ nextDirection = [x |-> 1, y |-> 0]
       /\ foodEaten = 0
       /\ moveTimer = 0
       /\ revealedCells = {}
       /\ ticks = 0
       /\ msIdle
       /\ mpIdle
       /\ sgIdle
       /\ \E n \in MineCounts :
             placing = [pc |-> "loop", mineCount |-> n, minesPlaced |-> 0,
                        safeX |-> centerX, safeY |-> centerY]

\* one iteration of the while loop: a sample, and the mine when the sampled
\* cell is not a mine and not safe
PlaceSample ==
    /\ placing.pc = "loop"
    /\ placing.minesPlaced < placing.mineCount
    /\ \E c \in placeBoard :
          IF ~grid[c[2]][c[1]].isMine /\ ~placeIsSafe(c[1], c[2])
          THEN /\ grid' = [grid EXCEPT ![c[2]][c[1]].isMine = TRUE]
               /\ placing' = [placing EXCEPT !.minesPlaced = @ + 1]
          ELSE UNCHANGED <<grid, placing>>
    /\ UNCHANGED <<scene, gameOver, won, firstClick, flagsPlaced, startTime,
                   gameEndCalls, cascade, smVars, mpVars, sgVars>>

\* the loop is left and the adjacency pass runs; placeMines returns
PlaceAdjacent ==
    /\ placing.pc = "loop"
    /\ ~(placing.minesPlaced < placing.mineCount)
    /\ grid' = IF scene = "Minesweeper" THEN calcAdjacent(grid)
                                        ELSE snakeCalcAdjacent(grid)
    /\ placing' = [placing EXCEPT !.pc = "done"]
    /\ UNCHANGED <<scene, gameOver, won, firstClick, flagsPlaced, startTime,
                   gameEndCalls, cascade, smVars, mpVars, sgVars>>

NextPlaceMines == PlaceSample \/ PlaceAdjacent

\* fair sampling: a sample that places a mine is drawn as long as one exists
SpecPlaceMines ==
    InitPlaceMines /\ [][NextPlaceMines]_vars /\ WF_vars(NextPlaceMines)

\* with the scene's own mine count the statement-level run ends in a grid
\* placeMines computes
PlaceAgrees ==
    placing.pc = "done" =>
        IF scene = "Minesweeper"
        THEN placing.mineCount = mineCount =>
                grid \in placeMines(initGrid, placing.safeX, placing.safeY)
        ELSE placing.mineCount = snakeMineCount =>
                grid \in snakePlaceMines(snakeInitGrid, placing.safeX,
                                         placing.safeY)

(* ---- MinesweeperPlatformerScene ---------------------------------------- *)
\* MinesweeperPlatformerScene.ROWS / COLS, scaled down from 15 x 10: the
\* ground row, one row that can hold mines and the top row with the goal
ROWS == 3
COLS == 3
\* the most tiles generateLevel asks for in one row: Between(4, 7) scaled
maxPlatformsInRow == 2

PLAYER_WIDTH == 28
PLAYER_HEIGHT == 40
TILE_WIDTH == 80
TILE_HEIGHT == 24
groundY == 700
\* the literals of generateLevel, update and hitMine
levelLeft == 112
rowSpacing == 60
goalRise == 50
goalRadius == 40
hitBand == 25
fallLine == 800
spawnX == 100
spawnY == 650
startLives == 3

PRows == 0 .. ROWS - 1
PCols == 0 .. COLS - 1

\* the 3 x 5 window of countAdjacentMines and revealAround
Kernel == (-1 .. 1) \X (-2 .. 2)

tileX(col) == col * TILE_WIDTH + TILE_WIDTH \div 2 + levelLeft
tileY(row) == groundY - (ROWS - 1 - row) * rowSpacing

PlatformTile(row, col, isMine, isRevealed) ==
    [x |-> tileX(col), y |-> tileY(row), width |-> TILE_WIDTH - 4,
     isMine |-> isMine, isRevealed |-> isRevealed, adjacentMines |-> 0,
     row |-> row, col |-> col]

\* the ground: one safe revealed tile in every column
groundTiles == [i \in 1 .. COLS |-> PlatformTile(ROWS - 1, i - 1, FALSE, TRUE)]

\* the columns one row can receive, in the order they were drawn: the first
\* draw always lands, a later one is skipped when 20 attempts all hit a used
\* column
rowOrders ==
    UNION { { q \in [1 .. n -> PCols] :
                \A i, j \in 1 .. n : i # j => q[i] # q[j] } :
            n \in 1 .. maxPlatformsInRow }

\* mutant of rowTiles: the row > 0 test left out
rowTilesAnyRow(row) ==
    UNION { { [i \in DOMAIN q |-> PlatformTile(row, q[i], m[i], FALSE)] :
              m \in [DOMAIN q -> BOOLEAN] } :
            q \in rowOrders }

\* the tiles one row can receive; Math.random() < mineChance && row > 0
rowTiles(row) ==
    UNION { { [i \in DOMAIN q |-> PlatformTile(row, q[i], m[i], FALSE)] :
              m \in [DOMAIN q -> IF row > 0 THEN BOOLEAN ELSE {FALSE}] } :
            q \in rowOrders }

\* the rows from row up to the top, as pushed
RECURSIVE rowsFrom(_)
rowsFrom(row) ==
    IF row < 0 THEN { << >> }
    ELSE { r \o rest : r \in rowTiles(row), rest \in rowsFrom(row - 1) }

\* platformGrid of a list of tiles
gridOf(ps) ==
    [row \in PRows |-> [col \in PCols |->
        IF \E i \in DOMAIN ps : ps[i].row = row /\ ps[i].col = col
        THEN CHOOSE i \in DOMAIN ps : ps[i].row = row /\ ps[i].col = col
        ELSE 0]]

\* mutant of platformerCountAdjacentMines: the tile's own row only
platformerCountAdjacentMinesOwnRow(ps, pg, row, col) ==
    Cardinality({ d \in Kernel \ {<<0, 0>>} :
        /\ d[1] = 0
        /\ row + d[1] \in PRows /\ col + d[2] \in PCols
        /\ pg[row + d[1]][col + d[2]] # 0
        /\ ps[pg[row + d[1]][col + d[2]]].isMine })

platformerCountAdjacentMines(ps, pg, row, col) ==
    Cardinality({ d \in Kernel \ {<<0, 0>>} :
        /\ row + d[1] \in PRows /\ col + d[2] \in PCols
        /\ pg[row + d[1]][col + d[2]] # 0
        /\ ps[pg[row + d[1]][col + d[2]]].isMine })

\* the adjacency pass over the tiles that are not mines
platformerCalcAdjacent(ps, pg) ==
    [i \in DOMAIN ps |->
        IF ~ps[i].isMine
        THEN [ps[i] EXCEPT !.adjacentMines =
                 platformerCountAdjacentMines(ps, pg, ps[i].row, ps[i].col)]
        ELSE ps[i]]

\* the goal on the top tile g: the tile is made safe and counted again
placeGoal(ps, pg, g) ==
    only({ [platforms |->
                [safe EXCEPT ![g].adjacentMines =
                    platformerCountAdjacentMines(safe, pg, safe[g].row,
                                                 safe[g].col)],
            platformGrid |-> pg,
            goal |-> [x |-> ps[g].x, y |-> ps[g].y - goalRise]] :
           safe \in { [ps EXCEPT ![g].isMine = FALSE] } })

\* every level generateLevel can build
generateLevel ==
    UNION { { placeGoal(platformerCalcAdjacent(ps, gridOf(ps)), gridOf(ps), g) :
              g \in { i \in DOMAIN ps : ps[i].row = 0 } } :
            ps \in { groundTiles \o up : up \in rowsFrom(ROWS - 2) } }

platformerSession ==
    [platforms |-> platforms, platformGrid |-> platformGrid, goal |-> goal,
     player |-> player, isGrounded |-> isGrounded,
     currentPlatform |-> currentPlatform, lives |-> lives,
     gameOver |-> gameOver, won |-> won, gameEndCalls |-> gameEndCalls]

\* the scene after create on the level lvl
platformerCreated(lvl) ==
    [platforms |-> lvl.platforms, platformGrid |-> lvl.platformGrid,
     goal |-> lvl.goal, player |-> [x |-> spawnX, y |-> spawnY, vy |-> 0],
     isGrounded |-> FALSE, currentPlatform |-> 0, lives |-> startLives,
     gameOver |-> FALSE, won |-> FALSE, gameEndCalls |-> 0]

\* the slots platformGrid[nr][nc] the two loops of revealAround index: the
\* offsets that pass the bounds test
kernelSlots(row, col) ==
    { s \in { <<row + d[1], col + d[2]>> : d \in Kernel } :
        s[1] >= 0 /\ s[1] < ROWS /\ s[2] >= 0 /\ s[2] < COLS }

revealAroundOwnRow(st, row, col) ==
    [st EXCEPT !.platforms = [i \in DOMAIN st.platforms |->
        IF \E d \in Kernel :
              /\ d[1] = 0
              /\ row + d[1] \in PRows /\ col + d[2] \in PCols
              /\ st.platformGrid[row + d[1]][col + d[2]] = i
              /\ ~st.platforms[i].isMine
        THEN [st.platforms[i] EXCEPT !.isRevealed = TRUE]
        ELSE st.platforms[i]]]

revealAround(st, row, col) ==
    only({ [st EXCEPT !.platforms = [i \in DOMAIN st.platforms |->
               IF \E s \in slots :
                     /\ st.platformGrid[s[1]][s[2]] = i
                     /\ ~st.platforms[i].isMine
               THEN [st.platforms[i] EXCEPT !.isRevealed = TRUE]
               ELSE st.platforms[i]]] :
           slots \in { kernelSlots(row, col) } })

platformerEndGame(st, w) ==
    [st EXCEPT !.gameOver = TRUE, !.won = w,
               !.platforms = [i \in DOMAIN st.platforms |->
                   IF st.platforms[i].isMine
                   THEN [st.platforms[i] EXCEPT !.isRevealed = TRUE]
                   ELSE st.platforms[i]],
               !.gameEndCalls = @ + 1]

\* mutant of hitMine: the session ends only below zero lives
hitMineBelowZero(st) ==
    only({ IF l.lives < 0
           THEN platformerEndGame(l, FALSE)
           ELSE [l EXCEPT !.player = [x |-> spawnX, y |-> spawnY, vy |-> 0]] :
           l \in { [st EXCEPT !.lives = @ - 1] } })

hitMine(st) ==
    only({ IF l.lives <= 0
           THEN platformerEndGame(l, FALSE)
           ELSE [l EXCEPT !.player = [x |-> spawnX, y |-> spawnY, vy |-> 0]] :
           l \in { [st EXCEPT !.lives = @ - 1] } })

checkPlatformCollision(p, platform) ==
    IF p.vy <= 0 THEN FALSE
    ELSE /\ p.y + PLAYER_HEIGHT \div 2 >= platform.y - TILE_HEIGHT \div 2
         /\ p.y + PLAYER_HEIGHT \div 2
               <= platform.y - TILE_HEIGHT \div 2 + hitBand
         /\ p.x + PLAYER_WIDTH \div 2 > platform.x - platform.width \div 2
         /\ p.x - PLAYER_WIDTH \div 2 < platform.x + platform.width \div 2

\* mutant of land: a revealed mine is hit again
landOnAnyMine(st, i) ==
    only({ IF s.platforms[i].isMine
           THEN hitMine([s EXCEPT !.platforms[i].isRevealed = TRUE])
           ELSE revealAround([s EXCEPT !.platforms[i].isRevealed = TRUE],
                             s.platforms[i].row, s.platforms[i].col) :
           s \in { [st EXCEPT
                      !.player.y = st.platforms[i].y - TILE_HEIGHT \div 2
                                      - PLAYER_HEIGHT \div 2,
                      !.player.vy = 0,
                      !.isGrounded = TRUE,
                      !.currentPlatform = i] } })

\* the body of the collision loop for the tile i the player has hit
land(st, i) ==
    only({ IF s.platforms[i].isMine /\ ~s.platforms[i].isRevealed
           THEN hitMine([s EXCEPT !.platforms[i].isRevealed = TRUE])
           ELSE revealAround([s EXCEPT !.platforms[i].isRevealed = TRUE],
                             s.platforms[i].row, s.platforms[i].col) :
           s \in { [st EXCEPT
                      !.player.y = st.platforms[i].y - TILE_HEIGHT \div 2
                                      - PLAYER_HEIGHT \div 2,
                      !.player.vy = 0,
                      !.isGrounded = TRUE,
                      !.currentPlatform = i] } })

\* for (const platform of this.platforms), from tile i on
RECURSIVE collide(_, _)
collide(st, i) ==
    IF i > Len(st.platforms) THEN st
    ELSE only({ collide(s, i + 1) :
                s \in { IF checkPlatformCollision(st.player, st.platforms[i])
                        THEN land(st, i) ELSE st } })

atGoal(st) ==
    (st.player.x - st.goal.x) * (st.player.x - st.goal.x)
      + (st.player.y - st.goal.y) * (st.player.y - st.goal.y)
        < goalRadius * goalRadius

Clamp(v, lo, hi) == IF v < lo THEN lo ELSE IF v > hi THEN hi ELSE v

\* one running frame; f is the player after the keys and the integration
platformerUpdate(st, f) ==
    only({ only({ IF g.player.y > fallLine THEN hitMine(g) ELSE g :
                  g \in { IF atGoal(c) THEN platformerEndGame(c, TRUE)
                                       ELSE c } }) :
           c \in { collide([st EXCEPT
                      !.player = [x |-> Clamp(f.x, PLAYER_WIDTH \div 2,
                                              canvasWidth - PLAYER_WIDTH \div 2),
                                  y |-> f.y, vy |-> f.vy],
                      !.isGrounded = FALSE,
                      !.currentPlatform = 0], 1) } })

\* the frames the integration is taken to produce: the player falling onto
\* the middle of a tile, falling onto the seam of two tiles side by side,
\* rising through the goal, rising above the spawn point, and below the
\* fall line
Frames(st) ==
    { [x |-> st.platforms[i].x,
       y |-> st.platforms[i].y - TILE_HEIGHT \div 2 - PLAYER_HEIGHT \div 2 + 5,
       vy |-> 100] : i \in DOMAIN st.platforms }
    \cup { [x |-> st.platforms[i].x + TILE_WIDTH \div 2,
            y |-> st.platforms[i].y - TILE_HEIGHT \div 2
                     - PLAYER_HEIGHT \div 2 + 5,
            vy |-> 100] :
           i \in { j \in DOMAIN st.platforms :
                     /\ st.platforms[j].col + 1 \in PCols
                     /\ st.platformGrid[st.platforms[j].row]
                                       [st.platforms[j].col + 1] # 0 } }
    \cup { [x |-> st.goal.x, y |-> st.goal.y, vy |-> -100],
           [x |-> spawnX, y |-> spawnY - 50, vy |-> -100],
           [x |-> spawnX, y |-> fallLine + 1, vy |-> 100] }

platformerOthersIdle ==
    /\ grid = << >>
    /\ msIdle
    /\ smIdle
    /\ placing = NoPlacing
    /\ sgIdle

platformerStore(st) ==
    /\ platforms' = st.platforms
    /\ platformGrid' = st.platformGrid
    /\ goal' = st.goal
    /\ player' = st.player
    /\ isGrounded' = st.isGrounded
    /\ currentPlatform' = st.currentPlatform
    /\ lives' = st.lives
    /\ gameOver' = st.gameOver
    /\ won' = st.won
    /\ gameEndCalls' = st.gameEndCalls

InitPlatformer ==
    /\ scene = "MinesweeperPlatformer"
    /\ platformerOthersIdle
    /\ \E lvl \in generateLevel :
          /\ platforms = lvl.platforms
          /\ platformGrid = lvl.platformGrid
          /\ goal = lvl.goal
    /\ player = [x |-> spawnX, y |-> spawnY, vy |-> 0]
    /\ isGrounded = FALSE
    /\ currentPlatform = 0
    /\ lives = startLives
    /\ gameOver = FALSE
    /\ won = FALSE
    /\ gameEndCalls = 0

\* update: a finished session waits for Space and restarts on a new level; a
\* running one advances by one frame
PlatformerUpdate ==
    /\ scene = "MinesweeperPlatformer"
    /\ IF gameOver
       THEN \E space \in BOOLEAN :
               IF space
               THEN \E lvl \in generateLevel :
                       platformerStore(platformerCreated(lvl))
               ELSE UNCHANGED mpVars /\ UNCHANGED <<gameOver, won, gameEndCalls>>
       ELSE \E f \in Frames(platformerSession) :
               platformerStore(platformerUpdate(platformerSession, f))
    /\ UNCHANGED <<scene, grid, firstClick, flagsPlaced, startTime, cascade,
                   smVars, placing, sgVars>>

NextPlatformer == PlatformerUpdate

SpecPlatformer == InitPlatformer /\ [][NextPlatformer]_vars

(* ---- the two games that reveal around a moving unit --------------------- *)
\* the page that is open chooses the scene
InitUnits == InitSnake \/ InitPlatformer
NextUnits == KeyDown \/ Update \/ PlatformerUpdate
SpecUnits == InitUnits /\ [][NextUnits]_vars

(* ---- the three mine games ------------------------------------------------ *)
\* the page that is open chooses the scene
InitGames == Init \/ InitSnake \/ InitPlatformer
NextGames == PointerDown \/ KeyDown \/ Update \/ PlatformerUpdate
SpecGames == InitGames /\ [][NextGames]_vars

TypeOK ==
    /\ gameOver \in BOOLEAN
    /\ won \in BOOLEAN
    /\ firstClick \in BOOLEAN
    /\ flagsPlaced \in 0 .. MaxFlags
    /\ startTime \in 0 .. MaxNow

(* ======================================================================= *)
(* Properties                                                               *)
(* ======================================================================= *)
cellAt(g, c) == g[c[2]][c[1]]
minesIn(g) == {c \in Cells : cellAt(g, c).isMine}
revealedIn(g) == {c \in Cells : cellAt(g, c).isRevealed}
flaggedIn(g) == {c \in Cells : cellAt(g, c).isFlagged}
Lost == gameOver /\ ~won
minesPlaced == Cardinality(minesIn(grid)) = mineCount

\* C1: the left click that takes the session out of its pending state
\* (firstClick TRUE -> FALSE) never leaves it lost.
C1_FirstClickNeverLost ==
    [][(firstClick /\ ~firstClick') => ~(gameOver' /\ ~won')]_vars

\* first click done: mines are placed, cells are revealed, the game runs
C1_Witness ==
    /\ scene = "Minesweeper" /\ ~firstClick /\ ~gameOver /\ minesPlaced
    /\ revealedIn(grid) # {}
    /\ flaggedIn(grid) = {}

\* C2: the step in which the first cell becomes revealed never loses the
\* game, i.e. the first cell revealed is never a mine.
C2_FirstRevealNeverMine ==
    [][(revealedIn(grid) = {} /\ revealedIn(grid') # {})
          => ~(gameOver' /\ ~won')]_vars

\* C3: once the mines are laid (click game: after the first click; snake
\* game: from create on), every cell that is not a mine carries the number of
\* mines among its in-bounds Moore neighbours, counted by a scan of the
\* board that leaves the cell itself out.
boardCells(g) == (DOMAIN g[0]) \X (DOMAIN g)
mooreMines(g, x, y) ==
    Cardinality({c \in ((x - 1) .. (x + 1)) \X ((y - 1) .. (y + 1)) :
        /\ c # <<x, y>>
        /\ c[1] \in DOMAIN g[0] /\ c[2] \in DOMAIN g
        /\ g[c[2]][c[1]].isMine})
minesLaid == scene = "SnakeMinesweeper" \/ ~firstClick
C4_NoFlaggedRevealed ==
    \A c \in Cells : ~(cellAt(grid, c).isFlagged /\ cellAt(grid, c).isRevealed)

\* C5: revealCell on a revealed or a flagged cell returns the session as it
\* was (cells, flag count, outcome, notifications).
C5_RevealDoneOrFlaggedNoOp ==
    \A c \in Cells :
        (cellAt(grid, c).isRevealed \/ cellAt(grid, c).isFlagged)
            => revealCell(session, c[1], c[2]) = session

\* a running game with a revealed cell and a flagged, unrevealed cell
C5_Witness ==
    /\ ~gameOver /\ ~firstClick
    /\ \E c \in Cells : cellAt(grid, c).isRevealed
    /\ \E c \in Cells : cellAt(grid, c).isFlagged /\ ~cellAt(grid, c).isRevealed

\* C6: a left click on a flagged cell of a running or pending session changes
\* nothing.
C6_LeftClickOnFlaggedChangesNothing ==
    [][\A c \in Cells :
          (/\ ~gameOver
           /\ cellAt(grid, c).isFlagged
           /\ pointerdown(tileMiddle(c[1], c[2])[1], tileMiddle(c[1], c[2])[2],
                          {"left"}))
            => UNCHANGED vars]_vars

\* C7: revealCell on an unrevealed, unflagged mine reveals it and ends the
\* session lost with one notification; no other cell that is not a mine is
\* touched (no cascade) and the session is not won (no win check).
C7_RevealMineLoses ==
    \A c \in Cells :
        (/\ cellAt(grid, c).isMine
         /\ ~cellAt(grid, c).isRevealed
         /\ ~cellAt(grid, c).isFlagged)
            => LET r == revealCell(session, c[1], c[2]) IN
               /\ cellAt(r.grid, c).isRevealed
               /\ r.gameOver /\ ~r.won
               /\ r.gameEndCalls = gameEndCalls + 1
               /\ r.flagsPlaced = flagsPlaced
               /\ \A d \in Cells :
                     ~cellAt(grid, d).isMine => cellAt(r.grid, d) = cellAt(grid, d)

\* a session lost by a click on a mine
C7_Witness ==
    /\ Lost /\ gameEndCalls = 1
    /\ minesIn(grid) # {} /\ minesIn(grid) \subseteq revealedIn(grid)

\* C8: the connected zero-count region of a cell and its numbered border
adjacent(a, b) == a # b /\ abs(a[1] - b[1]) <= 1 /\ abs(a[2] - b[2]) <= 1
zeroCells(g) ==
    {c \in Cells : ~cellAt(g, c).isMine /\ cellAt(g, c).adjacentMines = 0}
RECURSIVE grow(_, _)
grow(g, S) ==
    LET S2 == S \cup {z \in zeroCells(g) : \E c \in S : adjacent(c, z)}
    IN IF S2 = S THEN S ELSE grow(g, S2)
zeroRegion(g, c) == grow(g, {c})
regionBorder(g, R) ==
    {b \in Cells \ R : /\ ~cellAt(g, b).isMine
                        /\ cellAt(g, b).adjacentMines # 0
                        /\ \E c \in R : adjacent(c, b)}
\* a revealCell call the running game can make on a zero-count cell of a
\* board without flags
cascadeCall(c) ==
    /\ ~firstClick /\ ~gameOver
    /\ flaggedIn(grid) = {}
    /\ c \in zeroCells(grid)
    /\ ~cellAt(grid, c).isRevealed

C9_CascadeTerminatesOnce ==
    /\ <>(cascade.stack = << >>)
    /\ [](\A c \in Cells : cascade.writes[c] <= 1)

\* a finished cascade that revealed several cells through recursive calls
C9_Witness ==
    /\ cascade.stack = << >>
    /\ Cardinality({c \in Cells : cascade.writes[c] = 1}) > 3
    /\ ~gameOver

\* C10: toggleFlag on a revealed cell returns the session as it was.
C10_ToggleRevealedNoOp ==
    \A c \in Cells :
        cellAt(grid, c).isRevealed => toggleFlag(session, c[1], c[2]) = session

\* a running game with revealed cells and a flag on the board
C10_Witness ==
    /\ ~gameOver /\ flagsPlaced = 1
    /\ \E c \in Cells : cellAt(grid, c).isRevealed

\* C11: toggleFlag twice on an unrevealed cell returns the session (cells
\* and flagsPlaced) as it was before the first call.
C11_DoubleToggleRestores ==
    \A c \in Cells :
        ~cellAt(grid, c).isRevealed
            => toggleFlag(toggleFlag(session, c[1], c[2]), c[1], c[2]) = session

\* a running game with a flag on an unrevealed cell beside unrevealed cells
\* without a flag
C11_Witness ==
    /\ ~gameOver /\ ~firstClick /\ flagsPlaced = 1
    /\ \E c \in Cells : cellAt(grid, c).isFlagged /\ ~cellAt(grid, c).isRevealed
    /\ \E c \in Cells : ~cellAt(grid, c).isFlagged /\ ~cellAt(grid, c).isRevealed

\* C12: after mine placement the outcome is the one the evaluator derives
\* from the grid: Lost iff a mine is revealed, Won iff no mine is revealed
\* and every other cell is, Active otherwise.
evaluate(g) ==
    IF minesIn(g) \cap revealedIn(g) # {} THEN "Lost"
    ELSE IF (Cells \ minesIn(g)) \subseteq revealedIn(g) THEN "Won"
    ELSE "Active"
outcome == IF ~gameOver THEN "Active" ELSE IF won THEN "Won" ELSE "Lost"
C12_OutcomeFromGrid == ~firstClick => outcome = evaluate(grid)

\* C13: a running session has an unrevealed cell that is not a mine, and a
\* session with all of them revealed that was not lost is won.
safeLeft == (Cells \ minesIn(grid)) \ revealedIn(grid)
C13_WonWhenNoSafeLeft ==
    /\ ~gameOver => safeLeft # {}
    /\ (safeLeft = {} /\ ~Lost) => (gameOver /\ won)

\* a session won by a reveal that left no safe cell unrevealed
C13_Witness ==
    /\ gameOver /\ won /\ ~firstClick
    /\ safeLeft = {}

\* C14: once gameOver is true a pointer event either changes nothing of the
\* session or is the left click that restarts the scene.
restarted ==
    /\ grid' = initGrid /\ ~gameOver' /\ ~won' /\ firstClick'
    /\ flagsPlaced' = 0 /\ gameEndCalls' = 0
C14_GameOverTerminal ==
    [][gameOver => (\/ UNCHANGED <<grid, flagsPlaced, won, gameOver,
                                   gameEndCalls>>
                    \/ restarted)]_vars

\* a lost session with a flag left on the board and unrevealed cells
C14_Witness ==
    /\ Lost /\ flagsPlaced = 1
    /\ \E c \in Cells : ~cellAt(grid, c).isRevealed /\ ~cellAt(grid, c).isFlagged

\* C15: the first click of the click game leaves exactly mineCount mines, none
\* within Chebyshev distance 1 of the clicked cell; the snake game's board
\* has exactly snakeMineCount mines, none within distance 2 of the spawn cell.
chebyshev(a, b) == IF abs(a[1] - b[1]) >= abs(a[2] - b[2])
                   THEN abs(a[1] - b[1]) ELSE abs(a[2] - b[2])
snakeMines == {c \in SnakeCells : grid[c[2]][c[1]].isMine}
counts(g) == [c \in Cells |-> cellAt(g, c).adjacentMines]
C17_MinesLaidOnce ==
    /\ [](firstClick => minesIn(grid) = {})
    /\ [][(firstClick /\ ~firstClick') =>
            \E c \in Cells : pointerdown(tileMiddle(c[1], c[2])[1],
                                         tileMiddle(c[1], c[2])[2], {"left"})]_vars
    /\ [][(~firstClick /\ ~firstClick') =>
            /\ minesIn(grid') = minesIn(grid)
            /\ counts(grid') = counts(grid)]_vars

\* a running session after placement, several reveals and a flag
C17_Witness ==
    /\ scene = "Minesweeper" /\ ~firstClick /\ ~gameOver /\ minesPlaced
    /\ flagsPlaced = 1
    /\ Cardinality(revealedIn(grid)) >= 2
    /\ \E c \in Cells : cellAt(grid, c).adjacentMines > 0

\* C18: in the snake game a revealed mine means the session is over.
C18_RevealedMineTerminal ==
    scene = "SnakeMinesweeper" =>
        ((\E m \in snakeMines : grid[m[2]][m[1]].isRevealed) => gameOver)

\* the tile j lies in the 3-row by 5-column kernel around the tile i
inKernel(i, j) ==
    /\ abs(platforms[j].row - platforms[i].row) <= 1
    /\ abs(platforms[j].col - platforms[i].col) <= 2

C20_MineLandingEndsGame ==
    [][\A i \in DOMAIN platforms :
          (/\ ~gameOver
           /\ currentPlatform' = i
           /\ platforms[i].isMine
           /\ ~platforms[i].isRevealed)
              => (gameOver' /\ ~won')]_vars

\* the session with the snake's head put on the cell h
headAt(h) == [snakeSession EXCEPT !.snake = <<[x |-> h[1], y |-> h[2]]>>]

\* the cells of the snake board whose record revealAroundSnake changes when
\* the head is on h
snakeTouched(h) ==
    only({ { c \in SnakeCells : g[c[2]][c[1]] # grid[c[2]][c[1]] } :
           g \in { revealAroundSnake(headAt(h)).grid } })

\* the tiles whose record revealAround(row, col) changes
tilesTouched(row, col) ==
    only({ { i \in DOMAIN platforms : ps[i] # platforms[i] } :
           ps \in { revealAround(platformerSession, row, col).platforms } })

\* C21: at every position, the corner (0, 0) included, revealAround and
\* revealAroundSnake index only slots inside the grid, and run at that
\* position (the snake's on the board as create left it, the platformer's on
\* every level in every state) they reveal only cells of the in-bounds part
\* of their kernel
C21_RevealStaysInBounds ==
    /\ scene = "SnakeMinesweeper" =>
          \A h \in SnakeCells :
             /\ snakeKernel([x |-> h[1], y |-> h[2]]) \subseteq SnakeCells
             /\ ticks = 0 => \A c \in snakeTouched(h) : chebyshev(c, h) <= 1
    /\ scene = "MinesweeperPlatformer" =>
          \A row \in PRows, col \in PCols :
             /\ kernelSlots(row, col) \subseteq PRows \X PCols
             /\ \A i \in tilesTouched(row, col) :
                   /\ abs(platforms[i].row - row) <= 1
                   /\ abs(platforms[i].col - col) <= 2

\* the player stands on the tile of the corner (row 0, col 0) in a running
\* session: the tile below in the kernel is revealed, the ground row outside
\* the kernel is all the level had revealed before
C21_Witness ==
    /\ scene = "MinesweeperPlatformer"
    /\ ~gameOver
    /\ currentPlatform # 0
    /\ platforms[currentPlatform].row = 0
    /\ platforms[currentPlatform].col = 0
    /\ platforms[currentPlatform].isRevealed
    /\ \E j \in DOMAIN platforms :
          /\ platforms[j].row = 1 /\ ~platforms[j].isMine
          /\ platforms[j].isRevealed

\* the mine tiles inside the 3-row by 5-column kernel around the tile i,
\* found by a scan of the tile list
kernelMines(i) ==
    { j \in DOMAIN platforms :
        j # i /\ platforms[j].isMine /\ inKernel(i, j) }

\* C22: once generateLevel has run, every non-mine tile's adjacentMines is
\* the number of mine tiles in the 3-row by 5-column kernel around it, the
\* tile itself and the empty slots left out
C22_TileCountsMatchKernel ==
    \A i \in DOMAIN platforms :
       ~platforms[i].isMine =>
           platforms[i].adjacentMines = Cardinality(kernelMines(i))

\* a level with two mines: the goal tile counts both, a ground tile counts
\* both, and a session has already run on it
C22_Witness ==
    /\ scene = "MinesweeperPlatformer"
    /\ lives < startLives
    /\ \E g, t \in DOMAIN platforms :
          /\ platforms[g].row = 0
          /\ goal = [x |-> platforms[g].x, y |-> platforms[g].y - goalRise]
          /\ platforms[g].adjacentMines = 2
          /\ platforms[t].row = ROWS - 1
          /\ platforms[t].adjacentMines = 2
          /\ Cardinality(kernelMines(t)) = 2

\* the step is a restart of the snake scene: create has run again
snakeRestarted ==
    /\ ~gameOver'
    /\ ~won'
    /\ snake' = spawn
    /\ foodEaten' = 0
    /\ moveTimer' = 0
    /\ ticks' = 0

\* C23: once the snake session is over, no update tick and no key press
\* changes the segments, the grid or foodEaten; the only step that does is
\* the restart
C23_SnakeStopsWhenOver ==
    [][(scene = "SnakeMinesweeper" /\ gameOver)
          => (UNCHANGED <<snake, grid, foodEaten, gameOver, won>>
              \/ snakeRestarted)]_vars

\* a session the snake has won by eating the food
C23_Witness ==
    /\ scene = "SnakeMinesweeper"
    /\ gameOver /\ won
    /\ foodEaten = foodCount
    /\ ticks > 0

\* C24: in the click game flagsPlaced is the number of flagged cells in
\* every reachable state
C24_FlagCounterInStep ==
    scene = "Minesweeper" => flagsPlaced = Cardinality(flaggedIn(grid))

\* a finished session in which a flag was set and endGame has revealed the
\* flagged mine, next to cells a reveal has opened
C24_Witness ==
    /\ scene = "Minesweeper"
    /\ gameOver
    /\ flagsPlaced = 1
    /\ \E c \in minesIn(grid) :
          cellAt(grid, c).isFlagged /\ cellAt(grid, c).isRevealed
    /\ Cardinality(revealedIn(grid) \ minesIn(grid)) > 1

\* the zero-count region of c grown through cells that carry no flag, and
\* the unflagged numbered cells that border it
RECURSIVE growOpen(_, _)
growOpen(g, S) ==
    LET S2 == S \cup {z \in zeroCells(g) \ flaggedIn(g) :
                        \E c \in S : adjacent(c, z)}
    IN IF S2 = S THEN S ELSE growOpen(g, S2)
openRegion(g, c) == growOpen(g, {c})
openBorder(g, R) ==
    {b \in Cells \ R : /\ ~cellAt(g, b).isMine
                        /\ ~cellAt(g, b).isFlagged
                        /\ \E c \in R : adjacent(c, b)}

\* the revealCell call being stepped through started a cascade: its cell is
\* an unflagged zero-count cell of a board with nothing revealed
callCell == <<cascade.call.x, cascade.call.y>>
cascadeRun ==
    callCell \in zeroCells(cascade.call.st.grid)
                    \ flaggedIn(cascade.call.st.grid)

\* no call of the cascade has gone past its early return on a flagged cell
noneExpandedFlagged ==
    \A k \in DOMAIN cascade.stack :
       cascade.stack[k].at \in {"loop", "checkWin"} =>
           ~grid[cascade.stack[k].y][cascade.stack[k].x].isFlagged

\* the safe cells revealed lie in the region reached without crossing a flag
\* or on its border
revealedWithinOpen ==
    revealedIn(grid) \ minesIn(grid)
        \subseteq LET R == openRegion(cascade.call.st.grid, callCell)
                  IN R \cup openBorder(cascade.call.st.grid, R)

leftClick(st, first, x, y) ==
    IF first
    THEN { revealCell([st EXCEPT !.grid = g], x, y) :
           g \in placeMines(st.grid, x, y) }
    ELSE { revealCell(st, x, y) }

\* C26: in a running game, after a flag is set on an unrevealed cell a
\* reveal of that cell leaves isRevealed false; after the flag is toggled
\* off a reveal of the same cell sets isRevealed
C26_FlagBlocksRevealUntilCleared ==
    \A c \in Cells :
       (/\ scene = "Minesweeper" /\ ~gameOver
        /\ ~cellAt(grid, c).isRevealed /\ ~cellAt(grid, c).isFlagged) =>
          \A blocked \in leftClick(toggleFlag(session, c[1], c[2]),
                                   firstClick, c[1], c[2]) :
             /\ cellAt(blocked.grid, c).isFlagged
             /\ ~cellAt(blocked.grid, c).isRevealed
             /\ \A opened \in leftClick(toggleFlag(blocked, c[1], c[2]),
                                        FALSE, c[1], c[2]) :
                   /\ ~cellAt(opened.grid, c).isFlagged
                   /\ cellAt(opened.grid, c).isRevealed

\* the game after a flag was set and the first left click went to the
\* flagged cell: the mines are placed, the flag stands, nothing is revealed
C26_Witness ==
    /\ scene = "Minesweeper"
    /\ ~firstClick /\ ~gameOver
    /\ minesPlaced
    /\ revealedIn(grid) = {}
    /\ Cardinality(flaggedIn(grid)) = 1

\* the adjacency pass of the scene that is running
adjacencyPass(g) ==
    IF scene = "Minesweeper" THEN calcAdjacent(g) ELSE snakeCalcAdjacent(g)

\* C27: in the click game and the snake game every mine cell's
\* adjacentMines is 0, and the adjacency pass run again over the same mine
\* layout, once or twice, yields the counts the cells have
C27_MinesCarryNoCount ==
    /\ \A c \in boardCells(grid) :
          grid[c[2]][c[1]].isMine => grid[c[2]][c[1]].adjacentMines = 0
    /\ \A again \in { adjacencyPass(grid) } :
          again = grid /\ adjacencyPass(again) = again

\* the snake has moved on a board with a mine; a cell next to the mine
\* counts it
C27_Witness ==
    /\ scene = "SnakeMinesweeper"
    /\ ticks > 1
    /\ \E m \in snakeMines :
          /\ grid[m[2]][m[1]].adjacentMines = 0
          /\ \E c \in SnakeCells :
                /\ chebyshev(c, m) = 1
                /\ grid[c[2]][c[1]].adjacentMines = 1
                /\ grid[c[2]][c[1]].isRevealed

\* the pointer position p lies off the board's rectangle on the canvas
offBoard(p) ==
    \/ p[1] < offsetX \/ p[1] >= offsetX + gridWidth * tileSize
    \/ p[2] < offsetY \/ p[2] >= offsetY + gridHeight * tileSize

\* C28 as stated: a pointer click that falls outside the grid changes no
\* cell, places no mines, does not consume the first click and leaves the
\* flag count and the outcome as they were
C28_OutsideClickChangesNothing ==
    [][\A p \in Pointers, buttons \in Buttons :
          (offBoard(p) /\ pointerdown(p[1], p[2], buttons))
              => UNCHANGED <<grid, firstClick, flagsPlaced, gameOver,
                             won>>]_vars

\* C28: while the session is running, a pointer click that falls outside the
\* grid is not clamped to an edge cell: it changes no cell, places no mines,
\* does not consume the first click and leaves the flag count and the
\* outcome as they were (once the session is over, a left click anywhere
\* restarts the scene)
C28_OutsideClickIgnoredWhileRunning ==
    [][\A p \in Pointers, buttons \in Buttons :
          (~gameOver /\ offBoard(p) /\ pointerdown(p[1], p[2], buttons))
              => UNCHANGED <<grid, firstClick, flagsPlaced, gameOver,
                             won>>]_vars

\* a running game with the first click still to come and a flag set; the
\* position half a tile left of the board translates to column -1, the one
\* half a tile below it to row gridHeight
C28_Witness ==
    /\ scene = "Minesweeper"
    /\ ~gameOver /\ firstClick
    /\ flagsPlaced = 1
    /\ tileMiddle(-1, 0) \in Pointers /\ offBoard(tileMiddle(-1, 0))
    /\ toGridX(tileMiddle(-1, 0)[1]) = -1
    /\ toGridY(tileMiddle(0, gridHeight)[2]) = gridHeight

\* the step is a move of the running snake that put a new head on the board
movedOn ==
    /\ scene = "SnakeMinesweeper"
    /\ ~gameOver
    /\ ticks' = ticks + 1
    /\ snake'[1] # snake[1]

\* C29: a successful move of the snake changes isRevealed only for cells
\* within the 3x3 kernel of the new head; every cell outside it keeps its
\* isRevealed value, whatever the counts of the cells just revealed
C29_MoveRevealsKernelOnly ==
    [][movedOn =>
          \A c \in SnakeCells :
             chebyshev(c, <<snake'[1].x, snake'[1].y>>) > 1 =>
                 grid'[c[2]][c[1]].isRevealed
                    = grid[c[2]][c[1]].isRevealed]_vars

\* the snake has moved in a running session: a zero-count cell of the head's
\* kernel is revealed and a zero-count cell next to it, outside the kernel,
\* is still hidden
C29_Witness ==
    /\ scene = "SnakeMinesweeper"
    /\ ~gameOver
    /\ ticks > 0
    /\ \E c, z \in SnakeCells :
          /\ chebyshev(c, <<snake[1].x, snake[1].y>>) = 1
          /\ grid[c[2]][c[1]].isRevealed
          /\ grid[c[2]][c[1]].adjacentMines = 0
          /\ ~grid[c[2]][c[1]].isMine
          /\ chebyshev(z, c) = 1
          /\ chebyshev(z, <<snake[1].x, snake[1].y>>) > 1
          /\ grid[z[2]][z[1]].adjacentMines = 0
          /\ ~grid[z[2]][z[1]].isMine
          /\ ~grid[z[2]][z[1]].isRevealed

\* the cell the next tick enters
entered == <<snake[1].x + nextDirection.x, snake[1].y + nextDirection.y>>

ticked == scene = "SnakeMinesweeper" /\ ~gameOver /\ ticks' = ticks + 1

\* C31: no segment of the snake lies on a mine cell, and a tick whose target
\* cell is a mine ends the game as lost and leaves the snake as it was
C31_SnakeNeverOnMine ==
    /\ [](scene = "SnakeMinesweeper" =>
             \A i \in DOMAIN snake : ~grid[snake[i].y][snake[i].x].isMine)
    /\ [][(ticked /\ entered \in SnakeCells
                  /\ grid[entered[2]][entered[1]].isMine) =>
              (gameOver' /\ ~won' /\ snake' = snake)]_vars

\* the snake has run into a mine: the game is lost and the cell ahead of the
\* head is the mine
C31_Witness ==
    /\ scene = "SnakeMinesweeper"
    /\ gameOver /\ ~won
    /\ <<snake[1].x + direction.x, snake[1].y + direction.y>> \in snakeMines

\* the cells that hold food
foodCells == {c \in SnakeCells : grid[c[2]][c[1]].hasFood}

C33_GameEndDeliveredOnce ==
    scene = "Minesweeper" => gameEndCalls = (IF gameOver THEN 1 ELSE 0)

\* the step is a frame of the running platformer
framed == scene = "MinesweeperPlatformer" /\ ~gameOver

\* the player stands where hitMine puts it back
respawned == player = [x |-> spawnX, y |-> spawnY, vy |-> 0]

standsOn(i) ==
    /\ currentPlatform = i
    /\ isGrounded
    /\ player.y = platforms[i].y - TILE_HEIGHT \div 2 - PLAYER_HEIGHT \div 2
    /\ player.vy = 0

topPlatforms == { i \in DOMAIN platforms : platforms[i].row = 0 }

\* the tile list after the goal step has been run on the top tile g
goalForced(g) == placeGoal(platforms, platformGrid, g).platforms

\* C36: in every generated level the tiles of the ground row and of the top
\* row, the goal tile among them, are not mines; the step that forces the
\* goal tile safe, run on any top tile, changes no tile's isMine and no
\* tile's adjacentMines, and every safe tile's count is the number of mines
\* in its kernel
C36_GroundAndTopRowSafe ==
    scene = "MinesweeperPlatformer" =>
        /\ \A i \in DOMAIN platforms :
              platforms[i].row \in {0, ROWS - 1} => ~platforms[i].isMine
        /\ \E g \in topPlatforms :
              goal = [x |-> platforms[g].x, y |-> platforms[g].y - goalRise]
        /\ \A g \in topPlatforms :
              \A forced \in { goalForced(g) } :
                 \A i \in DOMAIN platforms :
                    /\ forced[i].isMine = platforms[i].isMine
                    /\ forced[i].adjacentMines = platforms[i].adjacentMines
        /\ \A i \in DOMAIN platforms :
              ~platforms[i].isMine =>
                  platforms[i].adjacentMines = Cardinality(kernelMines(i))

\* a level with two top tiles and a mine below them that the goal tile
\* counts
C36_Witness ==
    /\ scene = "MinesweeperPlatformer"
    /\ Cardinality(topPlatforms) = 2
    /\ \E g \in topPlatforms :
          /\ goal = [x |-> platforms[g].x, y |-> platforms[g].y - goalRise]
          /\ platforms[g].adjacentMines > 0
          /\ kernelMines(g) # {}

\* the step is a restart: a finished session gives way to a fresh one
sceneRestarted == gameOver /\ ~gameOver'

\* C37: in the three mine games a cell or tile that is revealed stays
\* revealed on every step that is not a restart of the scene
C37_RevealMonotonic ==
    [][~sceneRestarted =>
          /\ scene \in {"Minesweeper", "SnakeMinesweeper"} =>
                \A y \in DOMAIN grid : \A x \in DOMAIN grid[y] :
                   grid[y][x].isRevealed => grid'[y][x].isRevealed
          /\ scene = "SnakeMinesweeper" => revealedCells \subseteq revealedCells'
          /\ scene = "MinesweeperPlatformer" =>
                \A i \in DOMAIN platforms :
                   platforms[i].isRevealed => platforms'[i].isRevealed]_vars

\* the snake has moved on and a cell it revealed earlier, now out of the
\* kernel of its head, is still revealed
C37_Witness ==
    /\ scene = "SnakeMinesweeper"
    /\ ~gameOver
    /\ ticks >= 2
    /\ \E c \in SnakeCells :
          /\ chebyshev(c, <<snake[1].x, snake[1].y>>) > 1
          /\ grid[c[2]][c[1]].isRevealed
          /\ cellKey(c[1], c[2]) \in revealedCells

\* the radius of the scene's safe zone and the cells of its board outside
\* the zone around the safe point of the call
safetyRadius == IF scene = "Minesweeper" THEN 1 ELSE 2
eligible ==
    {c \in placeBoard :
        chebyshev(c, <<placing.safeX, placing.safeY>>) > safetyRadius}
placedMines == {c \in placeBoard : grid[c[2]][c[1]].isMine}

\* C38: a placeMines call whose mine count does not exceed the cells outside
\* the safe zone, as in the shipped configurations, comes to an end under
\* fair sampling with all its mines placed, whatever the safe point
C38_PlacementTerminates ==
    (placing.pc = "loop" /\ placing.mineCount <= Cardinality(eligible))
        ~> (/\ placing.pc = "done"
            /\ Cardinality(placedMines) = placing.mineCount
            /\ placedMines \subseteq eligible)

\* a call with the corner as safe point has returned with more than one
\* mine placed
C38_Witness ==
    /\ scene = "Minesweeper"
    /\ placing.pc = "done"
    /\ placing.safeX = 0 /\ placing.safeY = 0
    /\ placing.mineCount = MaxMineCount
    /\ Cardinality(placedMines) = MaxMineCount

\* a session of the click game as create leaves it
freshClicks ==
    /\ ~gameOver /\ ~won /\ firstClick
    /\ flagsPlaced = 0 /\ startTime = 0
    /\ minesIn(grid) = {} /\ revealedIn(grid) = {} /\ flaggedIn(grid) = {}

\* the cells around the head of the spawned snake and their keys
spawnKernel == {c \in SnakeCells : chebyshev(c, <<centerX, centerY>>) <= 1}
spawnKeys == {cellKey(c[1], c[2]) : c \in spawnKernel}

\* a session of the snake-minesweeper as create leaves it: a new layout,
\* revealed around the head of the spawned snake only
freshSnake ==
    /\ ~gameOver /\ ~won
    /\ snake = spawn
    /\ direction = [x |-> 1, y |-> 0] /\ nextDirection = [x |-> 1, y |-> 0]
    /\ foodEaten = 0 /\ moveTimer = 0
    /\ Cardinality(snakeMines) = snakeMineCount
    /\ Cardinality(foodCells) = foodCount
    /\ {c \in SnakeCells : grid[c[2]][c[1]].isRevealed} = spawnKernel
    /\ revealedCells = spawnKeys

\* a session of the snake game as create leaves it
freshSnakeGame ==
    /\ ~gameOver
    /\ snake = spawn
    /\ direction = [x |-> 1, y |-> 0] /\ nextDirection = [x |-> 1, y |-> 0]
    /\ score = 0 /\ snakeGameMoveDelay = startDelay
    /\ ~onSnake(snake, food.x, food.y)

\* C39: once the session is over, the only step that changes anything is
\* the restart, by a left click in the click game and by the Space key in
\* the snake games, and it leaves a fresh session: not over, not won,
\* nothing revealed by earlier play, no flags, no mines or a new layout; a
\* click without the left button, or any other key, changes nothing
C39_RestartGivesFreshSession ==
    [][/\ (scene = "Minesweeper" /\ gameOver) =>
             \/ UNCHANGED vars
             \/ /\ freshClicks'
                /\ \A p \in Pointers, buttons \in SUBSET {"right"} :
                      ~pointerdown(p[1], p[2], buttons)
       /\ (scene = "SnakeMinesweeper" /\ gameOver) =>
             \/ UNCHANGED vars
             \/ /\ freshSnake'
                /\ \A code \in Codes \ {"Space"} : ~keydown(code)
       /\ (scene = "SnakeGame" /\ gameOver) =>
             \/ UNCHANGED vars
             \/ /\ freshSnakeGame'
                /\ \A code \in Codes \ {"Space"} : ~snakeGameKeydown(code)]_vars

\* a won session of the click game with a flag standing on the mine, the
\* state a left click restarts from
C39_Witness ==
    /\ scene = "Minesweeper"
    /\ gameOver /\ won
    /\ flagsPlaced = 1
    /\ flaggedIn(grid) \subseteq minesIn(grid)
    /\ revealedIn(grid) = Cells

\* the direction opposite to d
opposite(d) == [x |-> -d.x, y |-> -d.y]

\* C40: in both snake games, whatever keys are pressed between two ticks,
\* the direction a tick applies is never the opposite of the direction the
\* tick before it applied (for the first tick: of the direction the snake
\* was spawned with), and the pending direction is never that opposite
C40_NoReversal ==
    /\ []((scene \in {"SnakeMinesweeper", "SnakeGame"} /\ ~gameOver) =>
             nextDirection # opposite(direction))
    /\ [][(scene \in {"SnakeMinesweeper", "SnakeGame"}
              /\ ticks' = ticks + 1) =>
             /\ direction' = nextDirection
             /\ direction' # opposite(direction)]_vars

\* the snake game has made two ticks, the second to the left after a turn
\* away from its first heading to the right, and the next turn is pending
C40_Witness ==
    /\ scene = "SnakeGame"
    /\ ~gameOver
    /\ ticks = 2
    /\ direction = [x |-> -1, y |-> 0]
    /\ nextDirection # direction
    /\ snake[1].x = centerX - 1

====
